---------------------------- MODULE Spec2Model ----------------------------
(***************************************************************************)
(* pdf2txt: OCR conversion of PDF pages and the line classifier that       *)
(* strips boilerplate from the recognised text.                            *)
(*                                                                         *)
(* Text is a sequence of characters.  A character is a one-element token:  *)
(* an ASCII character stands for itself ("A", "1", "-", " "), a non-ASCII  *)
(* character is named by its code point ("u5212" is U+5212), and the       *)
(* control characters are named "LF", "TAB", "CR", "FF", "VT"; backslash   *)
(* and backtick are "BSLASH" and "BTICK".                                  *)
(***************************************************************************)
EXTENDS Integers, Sequences, FiniteSets, TLC

(***************************************************************************)
(* Character classes of the regular expressions and of str.strip().        *)
(***************************************************************************)
\* \d
Digits == {"0", "1", "2", "3", "4", "5", "6", "7", "8", "9"}

\* [A-Z]
Upper == {"A", "B", "C", "D", "E", "F", "G", "H", "I", "J", "K", "L", "M",
          "N", "O", "P", "Q", "R", "S", "T", "U", "V", "W", "X", "Y", "Z"}

\* [a-z]
Lower == {"a", "b", "c", "d", "e", "f", "g", "h", "i", "j", "k", "l", "m",
          "n", "o", "p", "q", "r", "s", "t", "u", "v", "w", "x", "y", "z"}

\* \s, and the characters str.strip() removes
Whitespace == {" ", "LF", "TAB", "CR", "FF", "VT"}

\* [\u4e00-\u9fff]: the ideographs that occur in the program's literals
\* and in the input lines of this model
CJK == {"u4EBA", "u4F5C", "u5199", "u5212", "u5236", "u524D", "u533A",
        "u53D1", "u53EA", "u597D", "u5E03", "u5E74", "u5F88", "u6211",
        "u6237", "u63D0", "u6587", "u65B0", "u65E5", "u65F6", "u662F",
        "u6700", "u6708", "u6B21", "u70B9", "u70ED", "u7528", "u7559",
        "u7684", "u770B", "u7B2C", "u8005", "u8981", "u8A00", "u8BBA",
        "u8BC4", "u8D5E", "u8FD9", "u91CD", "u95F4", "u9875", "u9996"}

\* [A-Z\s\.,;:!@#$%^&*()_+=\-\[\]{}|\\`~]
UpperAndSymbols ==
    Upper \cup Whitespace \cup
    {".", ",", ";", ":", "!", "@", "#", "$", "%", "^", "&", "*", "(", ")",
     "_", "+", "=", "-", "[", "]", "{", "}", "|", "BSLASH", "BTICK", "~"}

\* [a-zA-Z\u4e00-\u9fff0-9]
AlnumOrCJK == Lower \cup Upper \cup CJK \cup Digits

(***************************************************************************)
(* String primitives.                                                      *)
(***************************************************************************)
SetMin(S) == CHOOSE m \in S : \A x \in S : m <= x

SetMax(S) == CHOOSE m \in S : \A x \in S : x <= m

\* len(re.findall(r'[class]', s))
CountIn(s, class) == Cardinality({k \in 1..Len(s) : s[k] \in class})

\* the pattern pat occurs in s at position p
MatchAt(s, pat, p) ==
    /\ p >= 1
    /\ p + Len(pat) - 1 <= Len(s)
    /\ \A k \in 1..Len(pat) : s[p + k - 1] = pat[k]

\* pat in s
Contains(s, pat) ==
    \/ pat = <<>>
    \/ \E p \in 1..(Len(s) - Len(pat) + 1) : s[p] = pat[1] /\ MatchAt(s, pat, p)

\* a slip: line[:-1] (chop a supposed trailing line feed) for line.strip()
StripChopsLast(s) == SubSeq(s, 1, Len(s) - 1)

\* s.strip()
Strip(s) ==
    IF \A k \in 1..Len(s) : s[k] \in Whitespace THEN <<>>
    ELSE LET first == CHOOSE k \in 1..Len(s) :
                          /\ s[k] \notin Whitespace
                          /\ \A j \in 1..(k - 1) : s[j] \in Whitespace
             last  == CHOOSE k \in 1..Len(s) :
                          /\ s[k] \notin Whitespace
                          /\ \A j \in (k + 1)..Len(s) : s[j] \in Whitespace
         IN  SubSeq(s, first, last)

\* s.split('\n'): the pieces between the line feeds, empty pieces included
Split(s) ==
    LET cuts  == {0, Len(s) + 1} \cup {k \in 1..Len(s) : s[k] = "LF"}
        nth(j) == CHOOSE c \in cuts : Cardinality({d \in cuts : d < c}) = j - 1
    IN  [j \in 1..(Cardinality(cuts) - 1) |->
            SubSeq(s, nth(j) + 1, nth(j + 1) - 1)]

RECURSIVE Join(_)
\* '\n'.join(ls)
Join(ls) ==
    IF ls = <<>> THEN <<>>
    ELSE IF Len(ls) = 1 THEN ls[1]
    ELSE ls[1] \o <<"LF">> \o Join(Tail(ls))

\* len(s.replace(' ', '').replace('\n', ''))
CharCount(s) == Cardinality({k \in 1..Len(s) : s[k] \notin {" ", "LF"}})

(***************************************************************************)
(* HybridContentFilter: the line predicates.                               *)
(***************************************************************************)
\* the key-points marker, U+5212 U+91CD U+70B9
KeyPointsMarker == <<"u5212", "u91CD", "u70B9">>

\* the separators of the numbered-item pattern: U+3001, U+FF0E and the
\* ASCII full stop
ItemSeparators == {"u3001", "uFF0E", "."}

\* re.match(r'^\d+[<separators>]', line)
is_numbered_item(line) ==
    \E k \in 1..(Len(line) - 1) :
        /\ \A j \in 1..k : line[j] \in Digits
        /\ line[k + 1] \in ItemSeparators

\* chinese_ratio > tenths / 10, where chinese_ratio is 0 for the empty line
\* and len(re.findall(r'[\u4e00-\u9fff]', line)) / len(line) otherwise
chinese_ratio_exceeds(line, tenths) ==
    /\ line # <<>>
    /\ 10 * CountIn(line, CJK) > tenths * Len(line)

\* comment_markers of _is_user_comment_start
comment_markers ==
    { <<"u6211", "u7684", "u7559", "u8A00">>,
      <<"u7528", "u6237", "u7559", "u8A00">>,
      <<"u6700", "u65B0", "u7559", "u8A00">>,
      <<"u6700", "u70ED", "u7559", "u8A00">>,
      <<"u53EA", "u770B", "u4F5C", "u8005">>,
      <<"u597D", "u7684", "u4EBA">>,
      <<"u8FD9", "u662F", "u524D", "u63D0">>,
      <<"u9996", "u6B21", "u53D1", "u5E03", ":">>,
      <<"u53D1", "u5E03", "u65F6", "u95F4", ":">>,
      <<"u5199", "u7559", "u8A00">> }

is_user_comment_start(line) == \E marker \in comment_markers : Contains(line, marker)

\* definite_markers of _is_definite_user_comment_start
definite_markers ==
    { <<"u6211", "u7684", "u7559", "u8A00">>,
      <<"u7528", "u6237", "u7559", "u8A00">>,
      <<"u6700", "u65B0", "u7559", "u8A00">>,
      <<"u6700", "u70ED", "u7559", "u8A00">>,
      <<"u53EA", "u770B", "u4F5C", "u8005">>,
      <<"u8BC4", "u8BBA", "u533A">>,
      <<"u7559", "u8A00", "u533A">> }

is_definite_user_comment_start(line) ==
    \E marker \in definite_markers : Contains(line, marker)

\* all of line[a..b] are digits
DigitsAt(line, a, b) == b <= Len(line) /\ \A k \in a..b : line[k] \in Digits

\* re.search(r'\d{4}Y\d{1,2}M\d{1,2}D', line) with Y = U+5E74 (year),
\* M = U+6708 (month), D = U+65E5 (day)
has_date_stamp(line) ==
    \E p \in 1..Len(line) : line[p] \in Digits /\ \E m \in 1..2 : \E d \in 1..2 :
        /\ p + 6 + m + d <= Len(line)
        /\ DigitsAt(line, p, p + 3)
        /\ line[p + 4] = "u5E74"
        /\ DigitsAt(line, p + 5, p + 4 + m)
        /\ line[p + 5 + m] = "u6708"
        /\ DigitsAt(line, p + 6 + m, p + 5 + m + d)
        /\ line[p + 6 + m + d] = "u65E5"

\* three capitals start at position p
UpperRunAt(line, p) ==
    line[p] \in Upper /\ p + 2 <= Len(line) /\ line[p + 1] \in Upper /\ line[p + 2] \in Upper

\* re.search(r'[A-Z]{3,}.*[A-Z]{3,}', line)
has_two_upper_runs(line) ==
    LET runs == {p \in 1..Len(line) : UpperRunAt(line, p)}
    IN  runs # {} /\ SetMax(runs) >= SetMin(runs) + 3

\* re.search(r'^\s*[A-Z\s]{10,}$', line), for a line without line feeds
is_upper_only(line) ==
    /\ Len(line) >= 10
    /\ \A k \in 1..Len(line) : line[k] \in Upper \cup Whitespace

\* re.search(r'Qtr|DATA|ABIES|AIEEE', line)
has_garbled_token(line) ==
    \E t \in { <<"Q", "t", "r">>, <<"D", "A", "T", "A">>,
               <<"A", "B", "I", "E", "S">>, <<"A", "I", "E", "E", "E">> } :
        Contains(line, t)

\* re.search(r'E\s*<U+5236>$', line): E, whitespace, then U+5236 ending the
\* line
ends_with_E_zhi(line) ==
    /\ Len(line) >= 2
    /\ line[Len(line)] = "u5236"
    /\ \E p \in 1..(Len(line) - 1) :
        /\ line[p] = "E"
        /\ \A k \in (p + 1)..(Len(line) - 1) : line[k] \in Whitespace

\* _is_garbage_content.  upper_and_symbols > len(line) * 0.7 is compared in
\* integers; the float product differs from the exact one only for lengths
\* such as 90 or 170, which no line of this model has together with a count
\* on the boundary.
is_garbage_content(line) ==
    \/ /\ 10 * CountIn(line, UpperAndSymbols) > 7 * Len(line)
       /\ Len(line) > 10
    \/ has_date_stamp(line)
    \/ has_two_upper_runs(line)
    \/ is_upper_only(line)
    \/ has_garbled_token(line)
    \/ ends_with_E_zhi(line)
    \/ /\ Len(line) < 5
       /\ \E k \in 1..Len(line) : line[k] \notin AlnumOrCJK

\* _is_definite_garbage
is_definite_garbage(line) == is_garbage_content(line)

\* _is_continuation_of_key_point(line, previous_lines)
is_continuation_of_key_point(line, previous_lines) ==
    IF previous_lines = <<>> THEN FALSE
    ELSE IF is_numbered_item(previous_lines[Len(previous_lines)]) THEN TRUE
    ELSE chinese_ratio_exceeds(line, 3) /\ Len(line) > 5

\* _looks_like_key_point_content
looks_like_key_point_content(line) ==
    /\ chinese_ratio_exceeds(line, 4)
    /\ Len(line) > 10
    /\ Len(line) < 200
    /\ ~is_garbage_content(line)

\* a slip: the negation of the garbage test is lost
looks_like_main_content_garbage(line) ==
    IF line = <<>> \/ Len(line) < 5 THEN FALSE
    ELSE /\ chinese_ratio_exceeds(line, 5)
         /\ Len(line) > 8
         /\ Len(line) < 300
         /\ is_definite_garbage(line)

\* _looks_like_main_content
looks_like_main_content(line) ==
    IF line = <<>> \/ Len(line) < 5 THEN FALSE
    ELSE /\ chinese_ratio_exceeds(line, 5)
         /\ Len(line) > 8
         /\ Len(line) < 300
         /\ ~is_definite_garbage(line)

(***************************************************************************)
(* HybridContentFilter: the two line scans.  A scan state holds the locals *)
(* of the loop.                                                            *)
(***************************************************************************)
\* the locals before the first line
ScanStart ==
    [filtered_lines |-> <<>>, skip_mode |-> FALSE,
     in_key_points |-> FALSE, key_points_ended |-> FALSE]

\* one iteration of the loop of _extract_with_key_points_boundary
key_points_step(st, raw) ==
    LET line    == Strip(raw)
        inside  == st.in_key_points /\ ~st.key_points_ended
        keep    == [st EXCEPT !.filtered_lines = Append(@, line)]
    IN  IF line = <<>> THEN st
        ELSE IF Contains(line, KeyPointsMarker)
             THEN [keep EXCEPT !.in_key_points = TRUE, !.key_points_ended = FALSE]
        ELSE IF inside /\ is_numbered_item(line) THEN keep
        ELSE IF inside /\ is_continuation_of_key_point(line, st.filtered_lines)
             THEN keep
        ELSE IF inside /\ is_garbage_content(line)
             THEN [st EXCEPT !.key_points_ended = TRUE]
        ELSE IF inside /\ is_user_comment_start(line)
             THEN [st EXCEPT !.key_points_ended = TRUE, !.skip_mode = TRUE]
        ELSE LET ended == st.key_points_ended
                          \/ (inside /\ ~looks_like_key_point_content(line))
                 st2   == [st EXCEPT !.key_points_ended = ended]
             IN  IF is_user_comment_start(line)
                 THEN [st2 EXCEPT !.skip_mode = TRUE]
                 ELSE IF st2.skip_mode THEN st2
                 ELSE IF is_garbage_content(line) THEN st2
                 ELSE IF ~st2.in_key_points \/ st2.key_points_ended
                      THEN [st2 EXCEPT !.filtered_lines = Append(@, line)]
                 ELSE st2

\* a slip: the test for an empty line is lost
no_key_points_step_keeps_blank(st, raw) ==
    LET line == Strip(raw)
        keep == [st EXCEPT !.filtered_lines = Append(@, line)]
    IN  IF is_definite_garbage(line) THEN st
        ELSE IF is_definite_user_comment_start(line)
             THEN [st EXCEPT !.skip_mode = TRUE]
        ELSE IF st.skip_mode
             THEN IF looks_like_main_content(line)
                  THEN IF Len(line) > 20 /\ chinese_ratio_exceeds(line, 6)
                       THEN [keep EXCEPT !.skip_mode = FALSE]
                       ELSE keep
                  ELSE st
        ELSE keep

\* one iteration of the loop of _extract_without_key_points
no_key_points_step(st, raw) ==
    LET line == Strip(raw)
        keep == [st EXCEPT !.filtered_lines = Append(@, line)]
    IN  IF line = <<>> THEN st
        ELSE IF is_definite_garbage(line) THEN st
        ELSE IF is_definite_user_comment_start(line)
             THEN [st EXCEPT !.skip_mode = TRUE]
        ELSE IF st.skip_mode
             THEN IF looks_like_main_content(line)
                  THEN IF Len(line) > 20 /\ chinese_ratio_exceeds(line, 6)
                       THEN [keep EXCEPT !.skip_mode = FALSE]
                       ELSE keep
                  ELSE st
        ELSE keep

RECURSIVE key_points_scan(_, _, _)
\* the loop of _extract_with_key_points_boundary from line k on
key_points_scan(st, ls, k) ==
    IF k > Len(ls) THEN st
    ELSE key_points_scan(key_points_step(st, ls[k]), ls, k + 1)

RECURSIVE no_key_points_scan(_, _, _)
\* the loop of _extract_without_key_points from line k on
no_key_points_scan(st, ls, k) ==
    IF k > Len(ls) THEN st
    ELSE no_key_points_scan(no_key_points_step(st, ls[k]), ls, k + 1)

\* _extract_with_key_points_boundary
extract_with_key_points_boundary(t) ==
    Join(key_points_scan(ScanStart, Split(t), 1).filtered_lines)

\* _extract_without_key_points
extract_without_key_points(t) ==
    Join(no_key_points_scan(ScanStart, Split(t), 1).filtered_lines)

\* HybridContentFilter.extract_main_content
extract_main_content(t) ==
    IF t = <<>> \/ Strip(t) = <<>> THEN <<>>
    ELSE IF Contains(t, KeyPointsMarker) THEN extract_with_key_points_boundary(t)
    ELSE extract_without_key_points(t)

(***************************************************************************)
(* Inputs of the classifier.                                               *)
(***************************************************************************)
\* the longest input document, in lines
MaxLines == 3

\* n copies of the character c
Repeat(c, n) == [k \in 1..n |-> c]

\* str(n) for 0 <= n < 100
str_int(n) ==
    LET digit(d) == <<"0", "1", "2", "3", "4", "5", "6", "7", "8", "9">>[d + 1]
    IN  IF n < 10 THEN <<digit(n)>> ELSE <<digit(n \div 10), digit(n % 10)>>

\* the line of the page-boundary marker, "--- <U+7B2C> {page_num} <U+9875> ---"
PageMarkerLine(page_num) ==
    <<"-", "-", "-", " ", "u7B2C", " ">> \o str_int(page_num)
        \o <<" ", "u9875", " ", "-", "-", "-">>

\* the key-points marker, padded as OCR output may be
KeyPointsLine == <<" ", "u5212", "u91CD", "u70B9", " ">>

\* a numbered item: 1 U+3001 U+8981 U+70B9
NumberedLine == <<"1", "u3001", "u8981", "u70B9">>

\* the comment-section start of the scenario: U+7528 U+6237 U+7559 U+8A00,
\* colon, space, U+5F88 U+8D5E (8 characters, 6 ideographs)
CommentLine == <<"u7528", "u6237", "u7559", "u8A00", ":", " ", "u5F88", "u8D5E">>

\* a comment-section start of comment_markers only: U+5199 U+7559 U+8A00
WriteCommentLine == <<"u5199", "u7559", "u8A00">>

\* body text of 21 ideographs: longer than 20, all CJK
BodyLine == Repeat("u6587", 21)

\* body text of 12 ideographs
ShortBodyLine == Repeat("u6587", 12)

\* Latin text that no noise signature matches
LatinLine == <<"a", "b", "c", " ", "d", "e", "f", " ", "g", "h", "i">>

\* body text of 300 ideographs
LongBodyLine == Repeat("u6587", 300)

\* a date stamp followed by 12 ideographs (21 characters, 15 ideographs)
DatedLine ==
    <<"2", "0", "2", "4", "u5E74", "1", "u6708", "1", "u65E5">> \o Repeat("u6587", 12)

\* a definite comment marker followed by 17 ideographs (21 characters)
CommentBodyLine == <<"u7528", "u6237", "u7559", "u8A00">> \o Repeat("u6587", 17)

\* the lines an input document is made of
InputLines ==
    { <<>>, KeyPointsLine, NumberedLine, CommentLine, WriteCommentLine,
      PageMarkerLine(1), BodyLine, ShortBodyLine, LatinLine, LongBodyLine,
      DatedLine, CommentBodyLine }

\* the input documents: up to MaxLines lines joined by line feeds
InputTexts ==
    {Join(ls) : ls \in UNION {[1..n -> InputLines] : n \in 0..MaxLines}}

(***************************************************************************)
(* State.                                                                  *)
(***************************************************************************)
VARIABLES
    fpc,             \* where the call of extract_main_content stands
    text,            \* its argument
    lines,           \* text.split('\n')
    idx,             \* the loop's position in lines (1-based)
    scan,            \* the loop's locals: filtered_lines, skip_mode, ...
    result,          \* the value returned
    cpc,             \* where EnhancedPDF2TXT.convert stands
    dpi,             \* self.dpi, the requested resolution
    pdf,             \* the input document: the height of each page, in inches
    rung,            \* _safe_convert_pdf: the position in dpi_levels (1-based)
    attempts,        \* every convert_from_path call made, in order: its dpi
                     \* and how it ended ("ok", "too_large", "error")
    images,          \* the page images returned by _safe_convert_pdf
    error,           \* the exception that left convert, or NoError
    page_num,        \* convert: the page the loop is about to process
    all_text,        \* convert: the pieces collected so far
    raw_text,        \* convert: ''.join(all_text)
    filtered_text,   \* convert: the classifier's result
    output           \* the content of the file at output_path, or NoFile

fvars == <<fpc, text, lines, idx, scan, result>>

cvars == <<cpc, dpi, pdf, rung, attempts, images, error, page_num, all_text,
           raw_text, filtered_text, output>>

VARIABLES
    ppc,             \* where the call of _process_page stands
    page_image,         \* its argument: the page image
    chunk_i,         \* _process_chunks: the loop variable i (0-based)
    crops,           \* _process_chunks: the box of every image.crop made
    ocr_log,         \* what every pytesseract.image_to_string call did
    ocr_texts,         \* the text every _ocr_image call returned
    page_result      \* the value _process_page returned

pvars == <<ppc, page_image, chunk_i, crops, ocr_log, ocr_texts, page_result>>

VARIABLES
    rpc,             \* where the FilterManager stands: loading, ready, ...
    to_load,         \* _load_filters: the files of the glob not yet visited
    filters,         \* self._filters: filter name to filter class
    requested,       \* get_filter: its argument filter_name
    returned,        \* get_filter: the instance returned, or NoFilter
    lookup_error     \* get_filter: the exception raised, or NoLookupError

rvars == <<rpc, to_load, filters, requested, returned, lookup_error>>

VARIABLES
    dpc,             \* where batch_convert.convert_file and the command it
                     \* runs, pdf2txt_enhanced.py, stand
    caller,          \* who runs the command: "driver" (convert_file) or "user"
    driver_filter,   \* convert_file: its argument filter_name
    argv_options,    \* the options on the command line of pdf2txt_enhanced.py
    returncode,      \* the exit status of the command, or NoStatus
    success          \* the value convert_file returned, or "none"

dvars == <<dpc, caller, driver_filter, argv_options, returncode, success>>

VARIABLES
    bpc,             \* where batch_convert.main stands
    worker,          \* args.worker
    force,           \* args.force
    task,            \* for each input file, the call of process_single_file:
                     \* its position, the counter it increments, the value
                     \* it read from the counter, and what it returned
    counters,        \* the three ThreadSafeCounter objects: _value and the
                     \* holder of _lock (0 when free)
    existing,        \* the stems whose <stem>_converted.txt was in
                     \* output_txt when main started
    out_files        \* output_txt: for each stem, the content of
                     \* <stem>_converted.txt, or NoFile

bvars == <<bpc, worker, force, task, counters, existing, out_files>>

VARIABLES
    jpc,             \* where PDF2TXT.convert (pdf2txt.py) stands
    n_jobs,          \* convert: its argument n_jobs
    page_tasks,      \* for each page, the call of process_single_page:
                     \* "queued", "running" or "done"
    results,         \* the (page_num, text) pairs the pool has collected
    full_text,       \* convert: the list of pieces joined into the file
    txt_output       \* the text written to output_path, or NoFile

jvars == <<jpc, n_jobs, page_tasks, results, full_text, txt_output>>

\* the state of the components other than the classifier and convert
xvars == <<pvars, rvars, dvars, bvars, jvars>>

\* what a call of _process_page leaves alone
page_others == <<fvars, cvars, rvars, dvars, bvars, jvars>>

\* what the FilterManager leaves alone
registry_others == <<fvars, cvars, pvars, dvars, bvars, jvars>>

\* what convert_file and the command line leave alone, convert apart
driver_others == <<fvars, pvars, rvars, bvars, jvars>>

\* what batch_convert.main and its workers leave alone
batch_others == <<fvars, cvars, pvars, rvars, dvars, jvars>>

\* what PDF2TXT.convert and its pool leave alone
parallel_others == <<fvars, cvars, pvars, rvars, dvars, bvars>>

vars == <<fvars, cvars, xvars>>

NoImage == [width |-> 0, height |-> 0]

\* no call of _process_page is under way
PageIdle ==
    /\ ppc = "idle"
    /\ page_image = NoImage
    /\ chunk_i = 0
    /\ crops = <<>>
    /\ ocr_log = <<>>
    /\ ocr_texts = <<>>
    /\ page_result = <<>>

\* the empty mapping
NoFilters == [n \in {} |-> ""]

NoFilter == [class |-> "none"]

NoLookupError == [kind |-> "none", names |-> {}]

\* no FilterManager exists
RegistryIdle ==
    /\ rpc = "idle"
    /\ to_load = {}
    /\ filters = NoFilters
    /\ requested = ""
    /\ returned = NoFilter
    /\ lookup_error = NoLookupError

NoStatus == -1

\* no command is being run
DriverIdle ==
    /\ dpc = "idle"
    /\ caller = "none"
    /\ driver_filter = ""
    /\ argv_options = {}
    /\ returncode = NoStatus
    /\ success = "none"

\* batch_convert.main is not running
BatchIdle ==
    /\ bpc = "idle"
    /\ worker = 1
    /\ force = FALSE
    /\ task = <<>>
    /\ counters = <<>>
    /\ existing = {}
    /\ out_files = <<>>

NoFile == <<"NoFile">>

\* PDF2TXT.convert is not running
ParallelIdle ==
    /\ jpc = "idle"
    /\ n_jobs = 1
    /\ page_tasks = <<>>
    /\ results = <<>>
    /\ full_text = <<>>
    /\ txt_output = NoFile

ExtraIdle == PageIdle /\ RegistryIdle /\ DriverIdle /\ BatchIdle /\ ParallelIdle

NoError == [name |-> "none", exceeds_limit |-> FALSE, decompression_bomb |-> FALSE]


\* no call of extract_main_content is under way
FilterIdle ==
    /\ fpc = "idle"
    /\ text = <<>>
    /\ lines = <<>>
    /\ idx = 1
    /\ scan = ScanStart
    /\ result = <<>>

\* no call of convert is under way
ConvertIdle ==
    /\ cpc = "idle"
    /\ dpi = 300
    /\ pdf = <<>>
    /\ rung = 1
    /\ attempts = <<>>
    /\ images = <<>>
    /\ error = NoError
    /\ page_num = 1
    /\ all_text = <<>>
    /\ raw_text = <<>>
    /\ filtered_text = <<>>
    /\ output = NoFile

(***************************************************************************)
(* A call of HybridContentFilter.extract_main_content, line by line.       *)
(***************************************************************************)
FilterInit ==
    /\ fpc = "call"
    /\ text \in InputTexts
    /\ lines = <<>>
    /\ idx = 1
    /\ scan = ScanStart
    /\ result = <<>>
    /\ ConvertIdle
    /\ ExtraIdle

\* extract_main_content: the empty-text return and the choice of strategy
Dispatch ==
    /\ fpc = "call"
    /\ IF text = <<>> \/ Strip(text) = <<>>
       THEN /\ fpc' = "done"
            /\ UNCHANGED lines
       ELSE /\ fpc' = IF Contains(text, KeyPointsMarker)
                      THEN "key_points" ELSE "no_key_points"
            /\ lines' = Split(text)
    /\ UNCHANGED <<text, idx, scan, result>>
    /\ UNCHANGED <<cvars, xvars>>

\* _extract_with_key_points_boundary: one line
KeyPointsLoop ==
    /\ fpc = "key_points"
    /\ idx <= Len(lines)
    /\ scan' = key_points_step(scan, lines[idx])
    /\ idx' = idx + 1
    /\ UNCHANGED <<fpc, text, lines, result>>
    /\ UNCHANGED <<cvars, xvars>>

\* _extract_with_key_points_boundary: return '\n'.join(filtered_lines)
KeyPointsReturn ==
    /\ fpc = "key_points"
    /\ idx > Len(lines)
    /\ result' = Join(scan.filtered_lines)
    /\ fpc' = "done"
    /\ UNCHANGED <<text, lines, idx, scan>>
    /\ UNCHANGED <<cvars, xvars>>

\* _extract_without_key_points: one line
NoKeyPointsLoop ==
    /\ fpc = "no_key_points"
    /\ idx <= Len(lines)
    /\ scan' = no_key_points_step(scan, lines[idx])
    /\ idx' = idx + 1
    /\ UNCHANGED <<fpc, text, lines, result>>
    /\ UNCHANGED <<cvars, xvars>>

\* _extract_without_key_points: return '\n'.join(filtered_lines)
NoKeyPointsReturn ==
    /\ fpc = "no_key_points"
    /\ idx > Len(lines)
    /\ result' = Join(scan.filtered_lines)
    /\ fpc' = "done"
    /\ UNCHANGED <<text, lines, idx, scan>>
    /\ UNCHANGED <<cvars, xvars>>

FilterNext ==
    \/ Dispatch
    \/ KeyPointsLoop
    \/ KeyPointsReturn
    \/ NoKeyPointsLoop
    \/ NoKeyPointsReturn

SpecFilter == FilterInit /\ [][FilterNext]_vars

(***************************************************************************)
(* Properties of the classifier (SpecFilter).                              *)
(***************************************************************************)
\* the line the loop is about to read, stripped
CurrentLine == Strip(lines[idx])

\* the loop is about to read a line
AtLine(strategy) == fpc = strategy /\ idx <= Len(lines)

\* the locals of the conservative loop before it read line k
BeforeLine(k) == no_key_points_scan(ScanStart, SubSeq(lines, 1, k - 1), 1)

\* the lines of the returned text
ResultLines == Split(result)

\* C1: in the boundary-aware strategy SKIPPING is sticky: once skip_mode is
\* set, no later line is emitted, whatever it contains.
C1_SkippingIsSticky ==
    [][(AtLine("key_points") /\ scan.skip_mode)
        => scan'.filtered_lines = scan.filtered_lines]_vars

\* C2: in the boundary-aware strategy, a line with a comment-section-start
\* marker read inside the key section is not emitted and sets SKIPPING,
\* whatever was emitted before it.
C2_CommentStartEntersSkipping ==
    [][(/\ AtLine("key_points")
        /\ scan.in_key_points /\ ~scan.key_points_ended
        /\ ~Contains(CurrentLine, KeyPointsMarker)
        /\ is_user_comment_start(CurrentLine))
        => (/\ scan'.filtered_lines = scan.filtered_lines
            /\ scan'.skip_mode)]_vars

\* a page-boundary marker line (page numbers below 100)
is_page_marker(line) == \E n \in 1..99 : line = PageMarkerLine(n)

\* C3: no page-boundary marker line appears in the text that
\* extract_main_content returns, under either strategy.
C3_NoPageMarkerInOutput ==
    fpc = "done" => \A k \in DOMAIN ResultLines : ~is_page_marker(ResultLines[k])

\* C5 as claimed: in the conservative strategy while SKIPPING, every line
\* longer than 20 with a CJK ratio above 0.6 is emitted, whatever else holds
\* of it.
C5_RecoveryWhateverElse ==
    [][(/\ AtLine("no_key_points")
        /\ scan.skip_mode
        /\ Len(CurrentLine) > 20
        /\ chinese_ratio_exceeds(CurrentLine, 6))
        => scan'.filtered_lines = Append(scan.filtered_lines, CurrentLine)]_vars

\* the recovery trigger of the conservative strategy: longer than 20 and
\* shorter than 300, CJK ratio above 0.6, no noise signature, no definite
\* comment-start marker
is_recovery_line(line) ==
    /\ Len(line) > 20
    /\ Len(line) < 300
    /\ chinese_ratio_exceeds(line, 6)
    /\ ~is_garbage_content(line)
    /\ ~is_definite_user_comment_start(line)

\* C5 as amended: in the conservative strategy while SKIPPING, every line
\* longer than 20 and shorter than 300 with a CJK ratio above 0.6 that
\* matches neither the noise signature nor a definite comment-start marker
\* is emitted, and SKIPPING is cleared.
C5_Recovery ==
    [][(/\ AtLine("no_key_points")
        /\ scan.skip_mode
        /\ is_recovery_line(CurrentLine))
        => (/\ scan'.filtered_lines = Append(scan.filtered_lines, CurrentLine)
            /\ ~scan'.skip_mode)]_vars

\* C5's case: the conservative loop has just read a recovery line while
\* SKIPPING, and emitted it
C5_Witness ==
    /\ fpc = "no_key_points"
    /\ idx > 1
    /\ BeforeLine(idx - 1).skip_mode
    /\ is_recovery_line(Strip(lines[idx - 1]))
    /\ scan.filtered_lines =
          Append(BeforeLine(idx - 1).filtered_lines, Strip(lines[idx - 1]))

\* C7: the text extract_main_content returns has no blank (empty or
\* whitespace-only) line, under either strategy.
C7_NoBlankLineInOutput ==
    (fpc = "done" /\ result # <<>>)
        => \A k \in DOMAIN ResultLines : Strip(ResultLines[k]) # <<>>

\* C7's case: a document with a blank line between lines that were kept
C7_Witness ==
    /\ fpc = "done"
    /\ Len(scan.filtered_lines) >= 2
    /\ \E k \in 2..(Len(lines) - 1) : Strip(lines[k]) = <<>>

\* C8: when the returned text holds no key-points marker and no line with a
\* noise signature, extract_main_content of it is the text itself.
C8_Idempotent ==
    (/\ fpc = "done"
     /\ ~Contains(result, KeyPointsMarker)
     /\ \A k \in DOMAIN ResultLines : ~is_garbage_content(ResultLines[k]))
        => extract_main_content(result) = result

\* C8's case: a returned text of several lines that differs from the input
\* (lines were dropped) and meets the precondition
C8_Witness ==
    /\ fpc = "done"
    /\ Len(scan.filtered_lines) >= 2
    /\ result # text
    /\ ~Contains(result, KeyPointsMarker)
    /\ \A k \in DOMAIN ResultLines : ~is_garbage_content(ResultLines[k])

(***************************************************************************)
(* EnhancedPDF2TXT: rasterisation, the page pipeline, assembly and the     *)
(* capacity guard.                                                         *)
(***************************************************************************)
\* the longest input document, in pages
MaxPages == 2

\* self.max_chunk_height
max_chunk_height == 10000

\* self.chunk_overlap
chunk_overlap == 50

\* the floor of the capacity guard
CapacityFloor == 4096

\* dpi_levels of _safe_convert_pdf
dpi_levels == <<dpi, 250, 200, 150>>

\* the resolutions a caller may construct the converter with; main() takes
\* the default of __init__, 300
RequestedDpi == {150, 300, 400}

\* the input documents, by the height of each page in inches: letter pages,
\* up to MaxPages of them, and a long scroll of one page
InputPdfs == {[p \in 1..n |-> 11] : n \in 1..MaxPages} \cup { <<50>> }

\* convert_from_path(pdf_path, dpi=d) when it succeeds: one image per page,
\* 8 inches wide
Rasterize(doc, d) == [p \in 1..Len(doc) |-> [width |-> 8 * d, height |-> doc[p] * d]]

\* the exceptions convert_from_path raises, by what str(e) contains:
\* "exceeds limit", and "decompression bomb" once lowered
RasterErrors ==
    { [name |-> "DecompressionBombError", exceeds_limit |-> TRUE, decompression_bomb |-> TRUE],
      [name |-> "DecompressionBombWarning", exceeds_limit |-> FALSE, decompression_bomb |-> TRUE],
      [name |-> "PDFPageCountError", exceeds_limit |-> FALSE, decompression_bomb |-> FALSE] }

\* "exceeds limit" in str(e) or "decompression bomb" in str(e).lower()
is_too_large(e) == e.exceeds_limit \/ e.decompression_bomb

\* the exception raised when every level failed
ExhaustedError ==
    [name |-> "Exception", exceeds_limit |-> FALSE, decompression_bomb |-> FALSE]

\* what pytesseract.image_to_string does: it raises, or returns one of these
OcrFailure == <<"OcrFailure">>

\* recognised text ends with a form feed
BlankText == <<"FF">>

KeyPointsText == KeyPointsMarker \o <<"LF">> \o NumberedLine \o <<"LF", "FF">>

BodyText == BodyLine \o <<"LF", "FF">>

LongText == Repeat("u6587", 4100) \o <<"LF", "FF">>

OcrOutcomes == {OcrFailure, BlankText, KeyPointsText, BodyText, LongText}

\* a slip: the exception is not caught, and the failure reaches the caller
ocr_image_uncaught(outcome) == outcome

\* _ocr_image: the text, or "" when recognition raised
ocr_image(outcome) == IF outcome = OcrFailure THEN <<>> ELSE outcome

\* a slip: the last of the three texts is preferred to the best
process_small_image_last(t1, t2, t3) ==
    IF CharCount(t3) > 0 THEN t3
    ELSE IF CharCount(t2) > 0 THEN t2
    ELSE t1

\* _process_small_image: the first of the three texts with the greatest count
process_small_image(t1, t2, t3) ==
    LET c1 == CharCount(t1)
        c2 == CharCount(t2)
        c3 == CharCount(t3)
    IN  IF c1 >= c2 /\ c1 >= c3 THEN t1
        ELSE IF c2 >= c3 THEN t2
        ELSE t3

\* math.ceil(a / b) for positive integers
CeilDiv(a, b) == (a + b - 1) \div b

\* a slip: the quotient is rounded down
num_chunks_floor(height) ==
    LET n == height \div max_chunk_height IN IF n < 6 THEN n ELSE 6

\* _process_chunks: num_chunks
num_chunks(height) ==
    LET n == CeilDiv(height, max_chunk_height) IN IF n < 6 THEN n ELSE 6

\* _process_chunks: chunk_height
chunk_height(height) == height \div num_chunks(height)

\* _process_chunks: start_y of chunk i (0-based)
start_y(height, i) == i * chunk_height(height)

\* a slip: the overlap margin is left out
end_y_no_overlap(height, i) ==
    LET e == (i + 1) * chunk_height(height)
    IN  IF height < e THEN height ELSE e

\* _process_chunks: end_y of chunk i (0-based)
end_y(height, i) ==
    LET e == (i + 1) * chunk_height(height) + chunk_overlap
    IN  IF height < e THEN height ELSE e

NonBlank(t) == Strip(t) # <<>>

\* _process_chunks: '\n'.join of the chunk texts that are not blank
process_chunks(texts) == Join(SelectSeq(texts, NonBlank))

\* _process_page: chunked when height > max_chunk_height * 1.2
is_chunked(image) == 10 * image.height > 12 * max_chunk_height

\* the number of recognitions _process_page makes for the image
recognitions(image) == IF is_chunked(image) THEN num_chunks(image.height) ELSE 3

\* _process_page, given the outcome of each recognition in order
process_page(image, outcomes) ==
    LET texts == [k \in 1..Len(outcomes) |-> ocr_image(outcomes[k])]
    IN  IF is_chunked(image) THEN process_chunks(texts)
        ELSE process_small_image(texts[1], texts[2], texts[3])

\* f"\n--- <U+7B2C> {page_num} <U+9875> ---\n"
page_marker(n) == <<"LF">> \o PageMarkerLine(n) \o <<"LF">>

RECURSIVE Concat(_)
\* ''.join(pieces)
Concat(pieces) ==
    IF pieces = <<>> THEN <<>> ELSE pieces[1] \o Concat(Tail(pieces))

\* a slip: the branches of the guard are exchanged
final_text_swapped(raw, filtered) ==
    IF CharCount(filtered) < CapacityFloor THEN filtered ELSE raw

\* a variant of the guard that always writes the filtered text
final_text_filtered(raw, filtered) == filtered

\* convert: the capacity guard
final_text(raw, filtered) ==
    IF CharCount(filtered) < CapacityFloor THEN raw ELSE filtered

\* converter = EnhancedPDF2TXT(); converter.convert(pdf_path, output)
ConvertInit ==
    /\ cpc = "rasterize"
    /\ dpi = 300
    /\ pdf \in InputPdfs
    /\ rung = 1
    /\ attempts = <<>>
    /\ images = <<>>
    /\ error = NoError
    /\ page_num = 1
    /\ all_text = <<>>
    /\ raw_text = <<>>
    /\ filtered_text = <<>>
    /\ output = NoFile
    /\ FilterIdle
    /\ ExtraIdle

\* the record of a convert_from_path call
Attempt(d, outcome) == [dpi |-> d, outcome |-> outcome]

\* a slip: the return is lost, and the loop goes on after a success
RasterSuccessGoesOn ==
    /\ cpc = "rasterize"
    /\ rung <= Len(dpi_levels)
    /\ attempts' = Append(attempts, Attempt(dpi_levels[rung], "ok"))
    /\ images' = Rasterize(pdf, dpi_levels[rung])
    /\ rung' = rung + 1
    /\ UNCHANGED <<cpc, dpi, pdf, error, page_num, all_text, raw_text,
                   filtered_text, output>>
    /\ UNCHANGED <<fvars, xvars>>

\* _safe_convert_pdf: convert_from_path succeeds at this level; return images
RasterSuccess ==
    /\ cpc = "rasterize"
    /\ rung <= Len(dpi_levels)
    /\ attempts' = Append(attempts, Attempt(dpi_levels[rung], "ok"))
    /\ images' = Rasterize(pdf, dpi_levels[rung])
    /\ cpc' = "pages"
    /\ UNCHANGED <<dpi, pdf, rung, error, page_num, all_text, raw_text,
                   filtered_text, output>>
    /\ UNCHANGED <<fvars, xvars>>

\* a slip: every exception is retried at the next level
RasterFailureRetriesAll ==
    /\ cpc = "rasterize"
    /\ rung <= Len(dpi_levels)
    /\ \E e \in RasterErrors :
        /\ attempts' = Append(attempts, Attempt(dpi_levels[rung],
                                IF is_too_large(e) THEN "too_large" ELSE "error"))
        /\ rung' = rung + 1
        /\ UNCHANGED <<cpc, error>>
    /\ UNCHANGED <<dpi, pdf, images, page_num, all_text, raw_text,
                   filtered_text, output>>
    /\ UNCHANGED <<fvars, xvars>>

\* _safe_convert_pdf: convert_from_path raises; continue with the next level
\* for a too-large error, raise any other
RasterFailure ==
    /\ cpc = "rasterize"
    /\ rung <= Len(dpi_levels)
    /\ \E e \in RasterErrors :
        IF is_too_large(e)
        THEN /\ attempts' = Append(attempts, Attempt(dpi_levels[rung], "too_large"))
             /\ rung' = rung + 1
             /\ UNCHANGED <<cpc, error>>
        ELSE /\ attempts' = Append(attempts, Attempt(dpi_levels[rung], "error"))
             /\ error' = e
             /\ cpc' = "failed"
             /\ UNCHANGED rung
    /\ UNCHANGED <<dpi, pdf, images, page_num, all_text, raw_text,
                   filtered_text, output>>
    /\ UNCHANGED <<fvars, xvars>>

\* a slip: the final raise is lost, and an empty list of images is returned
RasterExhaustedReturnsEmpty ==
    /\ cpc = "rasterize"
    /\ rung > Len(dpi_levels)
    /\ images' = <<>>
    /\ cpc' = "pages"
    /\ UNCHANGED <<dpi, pdf, rung, attempts, error, page_num, all_text,
                   raw_text, filtered_text, output>>
    /\ UNCHANGED <<fvars, xvars>>

\* _safe_convert_pdf: every level failed
RasterExhausted ==
    /\ cpc = "rasterize"
    /\ rung > Len(dpi_levels)
    /\ error' = ExhaustedError
    /\ cpc' = "failed"
    /\ UNCHANGED <<dpi, pdf, rung, attempts, images, page_num, all_text,
                   raw_text, filtered_text, output>>
    /\ UNCHANGED <<fvars, xvars>>

\* convert: one iteration of the loop over the pages
ProcessPage ==
    /\ cpc = "pages"
    /\ page_num <= Len(images)
    /\ \E outcomes \in [1..recognitions(images[page_num]) -> OcrOutcomes] :
        LET page_text == process_page(images[page_num], outcomes)
        IN  all_text' = IF Strip(page_text) # <<>>
                        THEN all_text \o <<page_marker(page_num), page_text, <<"LF">> >>
                        ELSE all_text
    /\ page_num' = page_num + 1
    /\ UNCHANGED <<cpc, dpi, pdf, rung, attempts, images, error, raw_text,
                   filtered_text, output>>
    /\ UNCHANGED <<fvars, xvars>>

\* convert: join, classify, apply the capacity guard and write the file
WriteOutput ==
    /\ cpc = "pages"
    /\ page_num > Len(images)
    /\ raw_text' = Concat(all_text)
    /\ filtered_text' = extract_main_content(raw_text')
    /\ output' = final_text(raw_text', filtered_text')
    /\ cpc' = "done"
    /\ UNCHANGED <<dpi, pdf, rung, attempts, images, error, page_num, all_text>>
    /\ UNCHANGED <<fvars, xvars>>

\* EnhancedPDF2TXT(dpi=d)._safe_convert_pdf(pdf_path)
RasterInit ==
    /\ cpc = "rasterize"
    /\ dpi \in RequestedDpi
    /\ pdf \in InputPdfs
    /\ rung = 1
    /\ attempts = <<>>
    /\ images = <<>>
    /\ error = NoError
    /\ page_num = 1
    /\ all_text = <<>>
    /\ raw_text = <<>>
    /\ filtered_text = <<>>
    /\ output = NoFile
    /\ FilterIdle
    /\ ExtraIdle

RasterNext ==
    \/ RasterSuccess
    \/ RasterFailure
    \/ RasterExhausted

SpecRaster == RasterInit /\ [][RasterNext]_vars

\* an exception raised inside the classifier: the call of
\* extract_main_content is not inside any try block of convert, so the
\* exception leaves convert before the file is opened
ClassifierError ==
    [name |-> "ClassifierError", exceeds_limit |-> FALSE, decompression_bomb |-> FALSE]

ClassifierRaises ==
    /\ cpc = "pages"
    /\ page_num > Len(images)
    /\ raw_text' = Concat(all_text)
    /\ error' = ClassifierError
    /\ cpc' = "failed"
    /\ UNCHANGED <<dpi, pdf, rung, attempts, images, page_num, all_text,
                   filtered_text, output>>
    /\ UNCHANGED <<fvars, xvars>>

Next ==
    \/ RasterSuccess
    \/ RasterFailure
    \/ RasterExhausted
    \/ ProcessPage
    \/ WriteOutput
    \/ ClassifierRaises

Spec == ConvertInit /\ [][Next]_vars

(***************************************************************************)
(* Properties of rasterisation (SpecRaster) and of convert (Spec).         *)
(***************************************************************************)
\* the lines of the assembled document text
RawLines == Split(raw_text)

\* C4: the assembled document text has exactly one marker-delimited section
\* for each page of the document, pages with empty text included.
C4_EveryPageHasSection ==
    cpc = "done" =>
        /\ \A n \in 1..Len(images) :
              \E k \in DOMAIN RawLines : RawLines[k] = PageMarkerLine(n)
        /\ Cardinality({k \in DOMAIN RawLines : is_page_marker(RawLines[k])})
              = Len(images)

\* C6: whenever the filtered text counts fewer than 4096 characters, the file
\* convert writes holds exactly the unfiltered document text.
C6_CapacityGuard ==
    (cpc = "done" /\ CharCount(filtered_text) < CapacityFloor)
        => output = raw_text

\* C6's case: the boundary-aware strategy trimmed the text to a non-empty
\* result below the floor
C6_Witness ==
    /\ cpc = "done"
    /\ Contains(raw_text, KeyPointsMarker)
    /\ filtered_text # <<>>
    /\ filtered_text # raw_text
    /\ CharCount(filtered_text) < CapacityFloor

\* C9: the levels are attempted in the order of the ladder, and a successful
\* attempt is the last one: its images are returned and no further level is
\* attempted.
C9_StopsAtFirstSuccess ==
    /\ \A k \in DOMAIN attempts : attempts[k].dpi = dpi_levels[k]
    /\ \A k \in DOMAIN attempts :
          attempts[k].outcome = "ok" =>
              /\ k = Len(attempts)
              /\ cpc = "pages"
              /\ images = Rasterize(pdf, attempts[k].dpi)
              /\ \A j \in 1..(k - 1) : attempts[j].outcome = "too_large"

\* C9's case: too large at 400, 250 and 200, success at 150
C9_Witness ==
    /\ cpc = "pages"
    /\ [k \in DOMAIN attempts |-> attempts[k].dpi] = <<400, 250, 200, 150>>
    /\ attempts[4].outcome = "ok"
    /\ images = Rasterize(pdf, 150)

\* C10: an attempt that fails with an error outside the too-large class is
\* the last one, and that error leaves _safe_convert_pdf.
C10_OtherErrorPropagates ==
    \A k \in DOMAIN attempts :
        attempts[k].outcome = "error" =>
            /\ k = Len(attempts)
            /\ cpc = "failed"
            /\ error \in RasterErrors
            /\ ~is_too_large(error)

\* C10's case: after two too-large failures, the third attempt fails with
\* another error
C10_Witness ==
    /\ cpc = "failed"
    /\ Len(attempts) = 3
    /\ attempts[3].outcome = "error"
    /\ error.name = "PDFPageCountError"

\* C11: the resolutions attempted are strictly descending: every retry is
\* made at a resolution lower than that of the attempt that just failed,
\* for every requested resolution.
C11_AttemptsStrictlyDescending ==
    \A k \in 2..Len(attempts) : attempts[k].dpi < attempts[k - 1].dpi

\* every level of the ladder was attempted and failed as too large
LadderExhausted ==
    /\ Len(attempts) >= Len(dpi_levels)
    /\ \A k \in DOMAIN attempts : attempts[k].outcome = "too_large"

\* C12: when every level fails as too large, there is exactly one attempt
\* per level (four), the step that follows ends convert with the fatal
\* conversion failure, and no output file is ever written.
C12_ExhaustedLadderIsFatal ==
    /\ [](LadderExhausted =>
            /\ Len(attempts) = 4
            /\ images = <<>>
            /\ output = NoFile
            /\ cpc \in {"rasterize", "failed"}
            /\ cpc = "failed" => error = ExhaustedError
            /\ cpc = "rasterize" => ENABLED RasterExhausted)
    /\ [][(LadderExhausted /\ cpc = "rasterize") =>
            (/\ cpc' = "failed"
             /\ error' = ExhaustedError
             /\ attempts' = attempts
             /\ output' = NoFile)]_vars

\* C12's case: four too-large failures, and convert has ended
C12_Witness ==
    /\ LadderExhausted
    /\ [k \in DOMAIN attempts |-> attempts[k].dpi] = <<300, 250, 200, 150>>
    /\ cpc = "failed"
    /\ output = NoFile

(***************************************************************************)
(* A call of EnhancedPDF2TXT._process_page, one recognition at a time.     *)
(***************************************************************************)
\* the heights of the page images, in pixels: a letter page, heights around
\* the chunk threshold and its 1.2 multiple, and heights of 2, 3, 5 and more
\* than 6 thresholds
PageHeights == {3300, 10000, 11000, 12000, 12001, 20000, 20002, 45000, 65003}

PageImages == {[width |-> 2400, height |-> h] : h \in PageHeights}

\* recognised text that counts n characters: n - 1 ideographs, a line feed
\* and the form feed that ends a page
StubText(n) == Repeat("u6587", n - 1) \o <<"LF", "FF">>

\* what pytesseract.image_to_string does for a variant or a chunk
PageOcrOutcomes == {OcrFailure, BlankText, StubText(10), StubText(37), StubText(22)}

PageInit ==
    /\ ppc = "process_page"
    /\ page_image \in PageImages
    /\ chunk_i = 0
    /\ crops = <<>>
    /\ ocr_log = <<>>
    /\ ocr_texts = <<>>
    /\ page_result = <<>>
    /\ FilterIdle
    /\ ConvertIdle
    /\ RegistryIdle
    /\ DriverIdle
    /\ BatchIdle
    /\ ParallelIdle

\* _process_page: the choice between chunks and variants
PageDispatch ==
    /\ ppc = "process_page"
    /\ ppc' = IF is_chunked(page_image) THEN "chunks" ELSE "small"
    /\ UNCHANGED <<page_image, chunk_i, crops, ocr_log, ocr_texts, page_result>>
    /\ UNCHANGED page_others

\* _process_chunks: one iteration of the loop, crop and recognise chunk i
ChunkStep ==
    /\ ppc = "chunks"
    /\ chunk_i < num_chunks(page_image.height)
    /\ crops' = Append(crops, [start_y |-> start_y(page_image.height, chunk_i),
                               end_y |-> end_y(page_image.height, chunk_i)])
    /\ \E outcome \in PageOcrOutcomes :
        /\ ocr_log' = Append(ocr_log, outcome)
        /\ ocr_texts' = Append(ocr_texts, ocr_image(outcome))
    /\ chunk_i' = chunk_i + 1
    /\ UNCHANGED <<ppc, page_image, page_result>>
    /\ UNCHANGED page_others

\* _process_chunks: the loop is over, join the texts that are not blank
ChunksReturn ==
    /\ ppc = "chunks"
    /\ chunk_i >= num_chunks(page_image.height)
    /\ page_result' = process_chunks(ocr_texts)
    /\ ppc' = "done"
    /\ UNCHANGED <<page_image, chunk_i, crops, ocr_log, ocr_texts>>
    /\ UNCHANGED page_others

\* _process_small_image: recognise the next of the three variants
SmallStep ==
    /\ ppc = "small"
    /\ Len(ocr_texts) < 3
    /\ \E outcome \in PageOcrOutcomes :
        /\ ocr_log' = Append(ocr_log, outcome)
        /\ ocr_texts' = Append(ocr_texts, ocr_image(outcome))
    /\ UNCHANGED <<ppc, page_image, chunk_i, crops, page_result>>
    /\ UNCHANGED page_others

\* _process_small_image: return the best of the three texts
SmallReturn ==
    /\ ppc = "small"
    /\ Len(ocr_texts) = 3
    /\ page_result' = process_small_image(ocr_texts[1], ocr_texts[2], ocr_texts[3])
    /\ ppc' = "done"
    /\ UNCHANGED <<page_image, chunk_i, crops, ocr_log, ocr_texts>>
    /\ UNCHANGED page_others

PageNext ==
    \/ PageDispatch
    \/ ChunkStep
    \/ ChunksReturn
    \/ SmallStep
    \/ SmallReturn

SpecPage == PageInit /\ [][PageNext]_vars

(***************************************************************************)
(* Properties of the page pipeline (SpecPage).                             *)
(***************************************************************************)
\* min(6, ceil(height / threshold)), by its definition: the least n with
\* n * threshold >= height, and 6 when that is more than 6
ExpectedChunks(height) ==
    IF height > 5 * max_chunk_height THEN 6
    ELSE CHOOSE n \in 1..5 :
            /\ n * max_chunk_height >= height
            /\ (n - 1) * max_chunk_height < height

\* C13 as claimed: every page higher than the chunk threshold is processed
\* as min(6, ceil(height / threshold)) chunks.
C13_ChunkedAboveThreshold ==
    (ppc = "done" /\ page_image.height > max_chunk_height)
        => /\ Len(crops) = ExpectedChunks(page_image.height)
           /\ Len(ocr_log) = Len(crops)

\* C13 as amended: a page higher than 1.2 times the chunk threshold is
\* processed as min(6, ceil(height / threshold)) chunks, one recognition
\* each; a page up to 1.2 times the threshold is not chunked and is
\* recognised as three variants.
C13_ChunkCount ==
    ppc = "done" =>
        IF 10 * page_image.height > 12 * max_chunk_height
        THEN /\ Len(crops) = ExpectedChunks(page_image.height)
             /\ Len(ocr_log) = Len(crops)
        ELSE /\ crops = <<>>
             /\ Len(ocr_log) = 3

\* C13's case: a page of more than six thresholds, processed as 6 chunks
C13_Witness ==
    /\ ppc = "done"
    /\ page_image.height = 65003
    /\ Len(crops) = 6

\* C14: on a chunked page the first chunk starts at row 0, each chunk ends
\* exactly the overlap margin below the start of the next, and the last
\* chunk ends at the image height, so the chunks leave no row uncovered.
C14_ChunksOverlapAndCover ==
    (ppc = "done" /\ is_chunked(page_image)) =>
        /\ crops # <<>>
        /\ crops[1].start_y = 0
        /\ \A k \in 1..(Len(crops) - 1) :
              crops[k].end_y - crops[k + 1].start_y = chunk_overlap
        /\ crops[Len(crops)].end_y = page_image.height
        /\ \A k \in DOMAIN crops : crops[k].start_y < crops[k].end_y
        /\ \A k \in 1..(Len(crops) - 1) : crops[k + 1].start_y <= crops[k].end_y

\* C14's case: three chunks of a height that the chunk count does not divide
C14_Witness ==
    /\ ppc = "done"
    /\ page_image.height = 20002
    /\ Len(crops) = 3
    /\ crops[3].start_y + chunk_height(20002) < 20002

\* C15: the text returned for a page that is not chunked is the text of one
\* of the three variants, unchanged, and no variant's text counts more
\* characters than it.
C15_BestVariantSelected ==
    (ppc = "done" /\ ~is_chunked(page_image)) =>
        /\ Len(ocr_texts) = 3
        /\ \E k \in 1..3 : page_result = ocr_texts[k]
        /\ \A k \in 1..3 : CharCount(ocr_texts[k]) <= CharCount(page_result)

\* C15's case: the variants count 10, 37 and 22 characters, and the text of
\* the second, the contrast variant, is returned
C15_Witness ==
    /\ ppc = "done"
    /\ ~is_chunked(page_image)
    /\ [k \in DOMAIN ocr_texts |-> CharCount(ocr_texts[k])] = <<10, 37, 22>>
    /\ page_result = ocr_texts[2]

\* the texts of the attempts made, a failed attempt counting as empty text
TextsOfAttempts ==
    [k \in DOMAIN ocr_log |-> IF ocr_log[k] = OcrFailure THEN <<>> ELSE ocr_log[k]]

\* C16: a recognition that fails contributes the empty text and stops
\* nothing: every attempt of the page is still made, and the page text is
\* the one computed from the texts of the other attempts, for any set of
\* failed attempts.
C16_OcrFailureIsEmptyText ==
    /\ \A k \in DOMAIN ocr_log :
          ocr_log[k] = OcrFailure => ocr_texts[k] = <<>>
    /\ ppc \in {"chunks", "small"} => ENABLED PageNext
    /\ ppc = "done" =>
          /\ Len(ocr_log) = recognitions(page_image)
          /\ page_result =
                IF is_chunked(page_image)
                THEN Join(SelectSeq(TextsOfAttempts, NonBlank))
                ELSE process_small_image(TextsOfAttempts[1], TextsOfAttempts[2],
                                         TextsOfAttempts[3])

\* C16's case: a chunked page whose first recognition failed and whose text
\* comes from a later chunk
C16_Witness ==
    /\ ppc = "done"
    /\ is_chunked(page_image)
    /\ ocr_log[1] = OcrFailure
    /\ \E k \in 2..Len(ocr_log) : ocr_log[k] = StubText(22)
    /\ page_result # <<>>

(***************************************************************************)
(* filters.FilterManager: loading the registry and looking a filter up.    *)
(***************************************************************************)
\* the stems of the modules that the filters directory may hold, __init__
\* and base_filter apart
FilterFiles == {"default", "djg", "hybrid", "legacy"}

\* the subclass of BaseContentFilter that the module of that stem defines
ClassOf(stem) ==
    CASE stem = "default" -> "DefaultContentFilter"
      [] stem = "djg" -> "DJGContentFilter"
      [] stem = "hybrid" -> "HybridContentFilter"
      [] OTHER -> "LegacyContentFilter"

\* the names get_filter is called with
LookupNames == FilterFiles \cup {"unknown"}

\* self._filters[filter_name] = attr
Register(registry, stem) ==
    [n \in (DOMAIN registry) \cup {stem} |->
        IF n = stem THEN ClassOf(stem) ELSE registry[n]]

\* FilterManager(): an empty mapping, and the files the glob finds
RegistryInit ==
    /\ rpc = "load"
    /\ to_load \in SUBSET FilterFiles
    /\ filters = NoFilters
    /\ requested = ""
    /\ returned = NoFilter
    /\ lookup_error = NoLookupError
    /\ FilterIdle
    /\ ConvertIdle
    /\ PageIdle
    /\ DriverIdle
    /\ BatchIdle
    /\ ParallelIdle

\* _load_filters: one iteration of the loop over the files; the module is
\* registered when it loads and defines a filter class, and skipped otherwise
LoadFilter ==
    /\ rpc = "load"
    /\ \E stem \in to_load :
        /\ to_load' = to_load \ {stem}
        /\ \E loaded \in BOOLEAN :
            filters' = IF loaded THEN Register(filters, stem) ELSE filters
    /\ UNCHANGED <<rpc, requested, returned, lookup_error>>
    /\ UNCHANGED registry_others

\* _load_filters returns
LoadDone ==
    /\ rpc = "load"
    /\ to_load = {}
    /\ rpc' = "ready"
    /\ UNCHANGED <<to_load, filters, requested, returned, lookup_error>>
    /\ UNCHANGED registry_others

\* a slip: the fallback is remembered under the unknown name
GetFilterRemembersFallback ==
    /\ rpc = "ready"
    /\ \E filter_name \in LookupNames :
        /\ requested' = filter_name
        /\ IF filter_name \notin DOMAIN filters /\ "default" \notin DOMAIN filters
           THEN /\ lookup_error' = [kind |-> "ValueError", names |-> DOMAIN filters]
                /\ rpc' = "raised"
                /\ UNCHANGED <<returned, filters>>
           ELSE /\ returned' = [class |-> IF filter_name \in DOMAIN filters
                                          THEN filters[filter_name]
                                          ELSE filters["default"]]
                /\ filters' = [n \in (DOMAIN filters) \cup {filter_name} |->
                                 IF n \in DOMAIN filters THEN filters[n]
                                 ELSE filters["default"]]
                /\ rpc' = "returned"
                /\ UNCHANGED lookup_error
    /\ UNCHANGED to_load
    /\ UNCHANGED registry_others

\* get_filter(filter_name)
GetFilter ==
    /\ rpc = "ready"
    /\ \E filter_name \in LookupNames :
        /\ requested' = filter_name
        /\ IF filter_name \notin DOMAIN filters
           THEN IF "default" \in DOMAIN filters
                THEN /\ returned' = [class |-> filters["default"]]
                     /\ rpc' = "returned"
                     /\ UNCHANGED lookup_error
                ELSE /\ lookup_error' = [kind |-> "ValueError", names |-> DOMAIN filters]
                     /\ rpc' = "raised"
                     /\ UNCHANGED returned
           ELSE /\ returned' = [class |-> filters[filter_name]]
                /\ rpc' = "returned"
                /\ UNCHANGED lookup_error
    /\ UNCHANGED <<to_load, filters>>
    /\ UNCHANGED registry_others

RegistryNext ==
    \/ LoadFilter
    \/ LoadDone
    \/ GetFilter

SpecRegistry == RegistryInit /\ [][RegistryNext]_vars

\* C17: get_filter with a name that is not registered returns an instance of
\* the filter registered as "default" when there is one, and otherwise
\* raises an error that names the registered filters; the lookup leaves the
\* registry as it was.
C17_UnknownNameFallsBack ==
    /\ []((rpc \in {"returned", "raised"} /\ requested \notin DOMAIN filters) =>
            IF "default" \in DOMAIN filters
            THEN /\ rpc = "returned"
                 /\ returned = [class |-> filters["default"]]
                 /\ lookup_error = NoLookupError
            ELSE /\ rpc = "raised"
                 /\ returned = NoFilter
                 /\ lookup_error.kind = "ValueError"
                 /\ lookup_error.names = DOMAIN filters)
    /\ [][rpc = "ready" => filters' = filters]_vars

\* C17's case: an unknown name looked up in a registry that holds "default"
\* and another filter
C17_Witness ==
    /\ rpc = "returned"
    /\ requested = "unknown"
    /\ DOMAIN filters = {"default", "djg"}
    /\ returned = [class |-> "DefaultContentFilter"]

(***************************************************************************)
(* filters.djg.DJGContentFilter.extract_main_content, line by line.        *)
(***************************************************************************)
\* boundary_keywords, in the order of the list: U+7528 U+6237 U+7559 U+8A00,
\* U+7528 U+5C38 U+7559 U+8A00, U+540E U+4E00 U+7BC7, U+524D U+4E00 U+7BC7
boundary_keywords ==
    << <<"u7528", "u6237", "u7559", "u8A00">>,
       <<"u7528", "u5C38", "u7559", "u8A00">>,
       <<"u540E", "u4E00", "u7BC7">>,
       <<"u524D", "u4E00", "u7BC7">> >>

\* found_keyword is set: some keyword of the list is in the line
has_boundary_keyword(line) ==
    \E k \in DOMAIN boundary_keywords : Contains(line, boundary_keywords[k])

\* the locals of the loop before its first iteration
DJGScanStart == [filtered_lines |-> <<>>, found_user_comment |-> FALSE]

\* a variant of djg_step that keeps the line as read, untrimmed
djg_step_untrimmed(st, raw) ==
    IF Strip(raw) = <<>> THEN st
    ELSE [filtered_lines |-> Append(st.filtered_lines, raw),
          found_user_comment |-> has_boundary_keyword(Strip(raw))]

\* one iteration of the loop, for a line read before the break
djg_step(st, raw) ==
    LET line == Strip(raw)
    IN  IF line = <<>> THEN st
        ELSE [filtered_lines |-> Append(st.filtered_lines, line),
              found_user_comment |-> has_boundary_keyword(line)]

RECURSIVE djg_scan(_, _, _)
\* the loop from line k on, left at the break
djg_scan(st, ls, k) ==
    IF k > Len(ls) \/ st.found_user_comment THEN st
    ELSE djg_scan(djg_step(st, ls[k]), ls, k + 1)

\* DJGContentFilter.extract_main_content
djg_extract_main_content(t) ==
    IF t = <<>> \/ Strip(t) = <<>> THEN <<>>
    ELSE Join(djg_scan(DJGScanStart, Split(t), 1).filtered_lines)

\* the lines an input document of the DJG filter is made of: blank lines,
\* body lines, a padded line, and a line for each boundary keyword
DJGInputLines ==
    { <<>>, <<" ">>, ShortBodyLine, LatinLine, <<" ", "a", " ">>,
      CommentLine,
      <<"u7528", "u5C38", "u7559", "u8A00">>,
      <<"u540E", "u4E00", "u7BC7", ":", "x">>,
      <<"<", "u524D", "u4E00", "u7BC7">> }

DJGInputTexts ==
    {Join(ls) : ls \in UNION {[1..n -> DJGInputLines] : n \in 0..MaxLines}}

DJGInit ==
    /\ fpc = "djg_call"
    /\ text \in DJGInputTexts
    /\ lines = <<>>
    /\ idx = 1
    /\ scan = DJGScanStart
    /\ result = <<>>
    /\ ConvertIdle
    /\ ExtraIdle

\* the empty-text return, and the split into lines
DJGEnter ==
    /\ fpc = "djg_call"
    /\ IF text = <<>> \/ Strip(text) = <<>>
       THEN /\ fpc' = "done"
            /\ result' = <<>>
            /\ UNCHANGED lines
       ELSE /\ fpc' = "djg_loop"
            /\ lines' = Split(text)
            /\ UNCHANGED result
    /\ UNCHANGED <<text, idx, scan>>
    /\ UNCHANGED <<cvars, xvars>>

\* one iteration of the loop
DJGLoop ==
    /\ fpc = "djg_loop"
    /\ idx <= Len(lines)
    /\ ~scan.found_user_comment
    /\ scan' = djg_step(scan, lines[idx])
    /\ idx' = idx + 1
    /\ UNCHANGED <<fpc, text, lines, result>>
    /\ UNCHANGED <<cvars, xvars>>

\* the loop is over or was left at the break: join and return
DJGReturn ==
    /\ fpc = "djg_loop"
    /\ idx > Len(lines) \/ scan.found_user_comment
    /\ result' = Join(scan.filtered_lines)
    /\ fpc' = "done"
    /\ UNCHANGED <<text, lines, idx, scan>>
    /\ UNCHANGED <<cvars, xvars>>

DJGNext ==
    \/ DJGEnter
    \/ DJGLoop
    \/ DJGReturn

SpecDJG == DJGInit /\ [][DJGNext]_vars

\* the positions of the lines that hold an end-of-article marker
MarkerPositions == {k \in DOMAIN Split(text) : has_boundary_keyword(Split(text)[k])}

\* the position of the first of them, or one past the last line
FirstMarker ==
    IF MarkerPositions = {} THEN Len(Split(text)) + 1 ELSE SetMin(MarkerPositions)

\* the lines before position k that are not blank, stripped, in order
NonBlankBefore(k) ==
    SelectSeq([j \in 1..(k - 1) |-> Strip(Split(text)[j])], LAMBDA l : l # <<>>)

\* C19: the DJG filter returns exactly the lines that are not blank and come
\* before the first line with an end-of-article marker, in order: not the
\* marker line, nor a line after it; all of them when no line has a marker.
C19_TruncatesBeforeMarker ==
    fpc = "done" => result = Join(NonBlankBefore(FirstMarker))

(***************************************************************************)
(* batch_convert.convert_file and the command it runs, pdf2txt_enhanced.py *)
(* with its click command line.                                            *)
(***************************************************************************)
\* the options that the click command main declares
DeclaredOptions == {"-o", "--output"}

\* the options a user gives on the command line
UserOptions == {{}, {"-o"}, {"--output"}}

\* convert_file(input_file, output_dir, filter_name) is called, or a user
\* runs python pdf2txt_enhanced.py
DriverInit ==
    /\ \/ /\ caller = "driver"
          /\ dpc = "convert_file"
          /\ driver_filter \in LookupNames
          /\ argv_options = {}
       \/ /\ caller = "user"
          /\ dpc = "main"
          /\ driver_filter = ""
          /\ argv_options \in UserOptions
    /\ returncode = NoStatus
    /\ success = "none"
    /\ FilterIdle
    /\ ConvertIdle
    /\ PageIdle
    /\ RegistryIdle
    /\ BatchIdle
    /\ ParallelIdle

\* convert_file: build the command and run it
RunCommand ==
    /\ dpc = "convert_file"
    /\ argv_options' = {"-o", "--filter"}
    /\ dpc' = "main"
    /\ UNCHANGED <<caller, driver_filter, returncode, success>>
    /\ UNCHANGED cvars
    /\ UNCHANGED driver_others

\* convert_file: subprocess.run raises, and False is returned
RunCommandRaises ==
    /\ dpc = "convert_file"
    /\ success' = "False"
    /\ dpc' = "returned"
    /\ UNCHANGED <<caller, driver_filter, argv_options, returncode>>
    /\ UNCHANGED cvars
    /\ UNCHANGED driver_others

\* the click command parses the command line: an option that is not
\* declared ends the command with status 2, otherwise main runs and calls
\* EnhancedPDF2TXT().convert
ParseOptions ==
    /\ dpc = "main"
    /\ IF argv_options \subseteq DeclaredOptions
       THEN /\ dpc' = "convert"
            /\ cpc' = "rasterize"
            /\ pdf' \in InputPdfs
            /\ UNCHANGED returncode
       ELSE /\ dpc' = "exited"
            /\ returncode' = 2
            /\ UNCHANGED <<cpc, pdf>>
    /\ UNCHANGED <<caller, driver_filter, argv_options, success>>
    /\ UNCHANGED <<dpi, rung, attempts, images, error, page_num, all_text,
                   raw_text, filtered_text, output>>
    /\ UNCHANGED driver_others

\* main: convert returned, or raised and exit(1)
MainExit ==
    /\ dpc = "convert"
    /\ cpc \in {"done", "failed"}
    /\ returncode' = IF cpc = "done" THEN 0 ELSE 1
    /\ dpc' = "exited"
    /\ UNCHANGED <<caller, driver_filter, argv_options, success>>
    /\ UNCHANGED cvars
    /\ UNCHANGED driver_others

\* convert_file: True when the command ended with status 0, False otherwise
ConvertFileReturn ==
    /\ dpc = "exited"
    /\ caller = "driver"
    /\ success' = IF returncode = 0 THEN "True" ELSE "False"
    /\ dpc' = "returned"
    /\ UNCHANGED <<caller, driver_filter, argv_options, returncode>>
    /\ UNCHANGED cvars
    /\ UNCHANGED driver_others

DriverNext ==
    \/ RunCommand
    \/ RunCommandRaises
    \/ ParseOptions
    \/ RasterSuccess
    \/ RasterFailure
    \/ RasterExhausted
    \/ ProcessPage
    \/ WriteOutput
    \/ ClassifierRaises
    \/ MainExit
    \/ ConvertFileReturn

SpecDriver == DriverInit /\ [][DriverNext]_vars

\* extract_main_content of the registry's filter of that name: the DJG
\* filter for "djg", the Default filter, the hybrid classifier, otherwise
registry_extract(name, t) ==
    IF name = "djg" THEN djg_extract_main_content(t) ELSE extract_main_content(t)

\* C18: a conversion that the driver runs with filter name F completes, and
\* the text it filtered is the document text filtered by the registry's
\* filter F (only a failed rasterisation may end it without a result).
C18_DriverFilterApplied ==
    (dpc = "returned" /\ returncode # NoStatus) =>
        /\ cpc \in {"done", "failed"}
        /\ cpc = "done" =>
              /\ success = "True"
              /\ filtered_text = registry_extract(driver_filter, raw_text)

(***************************************************************************)
(* batch_convert.main: the worker pool and the three ThreadSafeCounter     *)
(* objects.                                                                *)
(***************************************************************************)
\* the most input files of a batch
MaxFiles == 3

\* the greatest value of --worker
MaxWorkers == 3

\* processed_counter, skipped_counter, failed_counter
CounterNames == {"processed", "skipped", "failed"}

\* what the command run by convert_file does for a given input file: it
\* writes the text and exits with 0, it exits with another status, or
\* subprocess.run raises
FileOutcomes == {"success", "failure", "raised"}

\* the stems of n input files sorted by name: all different, or the first
\* two files share their stem (a.pdf and a.png)
InputStems(n) ==
    { [f \in 1..n |-> f], [f \in 1..n |-> IF f = 1 THEN 1 ELSE f - 1] }

\* the content of an output file that was there before the batch
OldText == <<"old">>

\* the text the command writes for input file f
ConvertedText(f) == <<"converted", f>>

\* a call of process_single_file not yet started, for a file with a given
\* stem and a given behaviour of the command on it
QueuedTask(stem, outcome) ==
    [pc |-> "queued", stem |-> stem, outcome |-> outcome,
     counter |-> "none", tmp |-> 0, result |-> "none"]

\* the calls of process_single_file that are under way
Running == {f \in DOMAIN task : task[f].pc \notin {"queued", "done"}}

\* main: the counters are created and the files are handed to the pool
BatchInit ==
    /\ bpc = "run"
    /\ worker \in 1..MaxWorkers
    /\ force \in BOOLEAN
    /\ \E total_files \in 1..MaxFiles :
        \E stems \in InputStems(total_files) :
            \E outcomes \in [1..total_files -> FileOutcomes] :
                /\ task = [f \in 1..total_files |-> QueuedTask(stems[f], outcomes[f])]
                /\ existing \in SUBSET {stems[1]}
                /\ out_files = [x \in {stems[f] : f \in 1..total_files} |->
                                   IF x \in existing THEN OldText ELSE NoFile]
    /\ counters = [c \in CounterNames |-> [value |-> 0, lock |-> 0]]
    /\ FilterIdle
    /\ ConvertIdle
    /\ PageIdle
    /\ RegistryIdle
    /\ DriverIdle
    /\ ParallelIdle

\* a free worker takes the next file, in the order of submission; with one
\* worker the files are processed one after the other
StartTask ==
    \E f \in DOMAIN task :
        /\ bpc = "run"
        /\ task[f].pc = "queued"
        /\ \A g \in 1..(f - 1) : task[g].pc # "queued"
        /\ Cardinality(Running) < worker
        /\ task' = [task EXCEPT ![f].pc = "process"]
        /\ UNCHANGED <<bpc, worker, force, counters, existing, out_files>>
        /\ UNCHANGED batch_others

\* is_already_processed: the output file of the stem exists
is_already_processed(f) == out_files[task[f].stem] # NoFile

\* process_single_file: the test for an output file that is already there
ProcessFile ==
    \E f \in DOMAIN task :
        /\ task[f].pc = "process"
        /\ IF ~force /\ is_already_processed(f)
           THEN task' = [task EXCEPT ![f].pc = "acquire",
                                     ![f].counter = "skipped",
                                     ![f].result = "skipped"]
           ELSE task' = [task EXCEPT ![f].pc = "convert"]
        /\ UNCHANGED <<bpc, worker, force, counters, existing, out_files>>
        /\ UNCHANGED batch_others

\* a slip: a failed conversion is not contained, and stops the batch
ConvertFileAborts ==
    \E f \in DOMAIN task :
        /\ task[f].pc = "convert"
        /\ IF task[f].outcome = "success"
           THEN /\ out_files' = [out_files EXCEPT ![task[f].stem] = ConvertedText(f)]
                /\ task' = [task EXCEPT ![f].pc = "acquire",
                                        ![f].counter = "processed",
                                        ![f].result = "success"]
                /\ UNCHANGED bpc
           ELSE /\ task' = [task EXCEPT ![f].pc = "done", ![f].result = "failed"]
                /\ bpc' = "aborted"
                /\ UNCHANGED out_files
        /\ UNCHANGED <<worker, force, counters, existing>>
        /\ UNCHANGED batch_others

\* convert_file and the rest of process_single_file up to the increment:
\* the command runs; on status 0 it has written the output file of the
\* stem; any other status, or an exception, makes the file a failed one
ConvertFile ==
    \E f \in DOMAIN task :
        /\ task[f].pc = "convert"
        /\ IF task[f].outcome = "success"
           THEN /\ out_files' = [out_files EXCEPT ![task[f].stem] = ConvertedText(f)]
                /\ task' = [task EXCEPT ![f].pc = "acquire",
                                        ![f].counter = "processed",
                                        ![f].result = "success"]
           ELSE /\ task' = [task EXCEPT ![f].pc = "acquire",
                                        ![f].counter = "failed",
                                        ![f].result = "failed"]
                /\ UNCHANGED out_files
        /\ UNCHANGED <<bpc, worker, force, counters, existing>>
        /\ UNCHANGED batch_others

\* a slip: the lock is not taken, the increment runs unprotected
AcquireUnlocked ==
    \E f \in DOMAIN task :
        /\ task[f].pc = "acquire"
        /\ task' = [task EXCEPT ![f].pc = "read"]
        /\ UNCHANGED <<bpc, worker, force, counters, existing, out_files>>
        /\ UNCHANGED batch_others

\* increment: with self._lock, entered when the lock is free
Acquire ==
    \E f \in DOMAIN task :
        /\ task[f].pc = "acquire"
        /\ counters[task[f].counter].lock = 0
        /\ counters' = [counters EXCEPT ![task[f].counter].lock = f]
        /\ task' = [task EXCEPT ![f].pc = "read"]
        /\ UNCHANGED <<bpc, worker, force, existing, out_files>>
        /\ UNCHANGED batch_others

\* increment: self._value += 1, the read
ReadValue ==
    \E f \in DOMAIN task :
        /\ task[f].pc = "read"
        /\ task' = [task EXCEPT ![f].pc = "write",
                                ![f].tmp = counters[task[f].counter].value]
        /\ UNCHANGED <<bpc, worker, force, counters, existing, out_files>>
        /\ UNCHANGED batch_others

\* increment: self._value += 1, the write
WriteValue ==
    \E f \in DOMAIN task :
        /\ task[f].pc = "write"
        /\ counters' = [counters EXCEPT ![task[f].counter].value = task[f].tmp + 1]
        /\ task' = [task EXCEPT ![f].pc = "release"]
        /\ UNCHANGED <<bpc, worker, force, existing, out_files>>
        /\ UNCHANGED batch_others

\* increment: the with block is left, and process_single_file returns
Release ==
    \E f \in DOMAIN task :
        /\ task[f].pc = "release"
        /\ counters' = [counters EXCEPT ![task[f].counter].lock = 0]
        /\ task' = [task EXCEPT ![f].pc = "done"]
        /\ UNCHANGED <<bpc, worker, force, existing, out_files>>
        /\ UNCHANGED batch_others

\* main: every call has returned, the totals are printed
Summary ==
    /\ bpc = "run"
    /\ \A f \in DOMAIN task : task[f].pc = "done"
    /\ bpc' = "summary"
    /\ UNCHANGED <<worker, force, task, counters, existing, out_files>>
    /\ UNCHANGED batch_others

BatchNext ==
    \/ StartTask
    \/ ProcessFile
    \/ ConvertFile
    \/ Acquire
    \/ ReadValue
    \/ WriteValue
    \/ Release
    \/ Summary

SpecBatch == BatchInit /\ [][BatchNext]_vars

\* the calls that have written their increment of counter c
Incremented(c) ==
    {f \in DOMAIN task : task[f].counter = c /\ task[f].pc \in {"release", "done"}}

\* C20: no increment is lost (each counter holds the number of calls that
\* incremented it), no counter ever decreases, and when every call has
\* returned the three counters add up to the number of input files, each
\* file counted by exactly one counter.
C20_CountersAtomic ==
    /\ [](\A c \in CounterNames : counters[c].value = Cardinality(Incremented(c)))
    /\ [](bpc = "summary" =>
            /\ counters["processed"].value + counters["skipped"].value
                  + counters["failed"].value = Len(task)
            /\ \A f \in DOMAIN task : task[f].counter \in CounterNames)
    /\ [][\A c \in CounterNames : counters'[c].value >= counters[c].value]_vars

\* C20's case: a worker waits for the lock of a counter while another is
\* between its read and its write of that counter
C20_Witness ==
    \E f, g \in DOMAIN task :
        /\ f # g
        /\ task[f].pc = "write"
        /\ task[g].pc = "acquire"
        /\ task[g].counter = task[f].counter

(***************************************************************************)
(* Further properties of the classifier (SpecFilter).                      *)
(***************************************************************************)
\* the boundary-aware loop is about to read a line inside the key section
\* that does not hold the key-points marker
InKeySection ==
    /\ AtLine("key_points")
    /\ scan.in_key_points
    /\ ~scan.key_points_ended
    /\ ~Contains(CurrentLine, KeyPointsMarker)

\* C23: inside the key section, a line that is no numbered item, no
\* continuation, no noise and no comment start, and that does not look like
\* key-point content, ends the key section and is not emitted.
C23_UnlikeKeyPointEndsSection ==
    [][(/\ InKeySection
        /\ CurrentLine # <<>>
        /\ ~is_numbered_item(CurrentLine)
        /\ ~is_continuation_of_key_point(CurrentLine, scan.filtered_lines)
        /\ ~is_garbage_content(CurrentLine)
        /\ ~is_user_comment_start(CurrentLine)
        /\ ~looks_like_key_point_content(CurrentLine))
        => (/\ scan'.key_points_ended
            /\ scan'.filtered_lines = scan.filtered_lines)]_vars

\* C24: in the conservative strategy while SKIPPING, a line is emitted only
\* when it is longer than 20 with a CJK ratio above 0.6, and SKIPPING is
\* then cleared: nothing is emitted while the mode stays SKIPPING.
C24_EmittedOnlyOnRecovery ==
    [][(/\ AtLine("no_key_points")
        /\ scan.skip_mode
        /\ scan'.filtered_lines # scan.filtered_lines)
        => (/\ Len(CurrentLine) > 20
            /\ chinese_ratio_exceeds(CurrentLine, 6)
            /\ ~scan'.skip_mode)]_vars

\* C25: inside the key section, a line with a noise signature ends the key
\* section and is not emitted, whatever the last emitted line was.
C25_NoiseEndsKeySection ==
    [][(InKeySection /\ CurrentLine # <<>> /\ is_garbage_content(CurrentLine))
        => (/\ scan'.key_points_ended
            /\ scan'.filtered_lines = scan.filtered_lines)]_vars

\* the lines of a returned text; the empty text has no line
LinesOf(t) == IF t = <<>> THEN <<>> ELSE Split(t)

\* the trimmed non-blank lines of a text, in order
RECURSIVE TrimmedLines(_)
TrimmedLines(ls) ==
    IF ls = <<>> THEN <<>>
    ELSE LET rest == TrimmedLines(Tail(ls))
         IN  IF Strip(Head(ls)) = <<>> THEN rest ELSE <<Strip(Head(ls))>> \o rest

\* sub is obtained from full by deleting elements
RECURSIVE IsSubsequence(_, _)
IsSubsequence(sub, full) ==
    IF sub = <<>> THEN TRUE
    ELSE IF full = <<>> THEN FALSE
    ELSE IF Head(sub) = Head(full) THEN IsSubsequence(Tail(sub), Tail(full))
    ELSE IsSubsequence(sub, Tail(full))

C29_RawOrLargeFiltered ==
    cpc = "done"
        => /\ CharCount(filtered_text) <= CharCount(raw_text)
           /\ CharCount(raw_text) < CapacityFloor => output = raw_text
           /\ \/ output = raw_text
              \/ /\ output = filtered_text
                 /\ CharCount(filtered_text) >= CapacityFloor

\* C29's case: a document below the floor of which the conservative
\* strategy dropped lines, and that was written
C29_Witness ==
    /\ cpc = "done"
    /\ ~Contains(raw_text, KeyPointsMarker)
    /\ CharCount(raw_text) > 0
    /\ CharCount(raw_text) < CapacityFloor
    /\ filtered_text # raw_text
    /\ output = raw_text

\* C26: when the classifier raises, convert does not abort: it ends normally
\* and the file it wrote holds the unfiltered document text.
C26_ClassifierFailureFallsBack ==
    error = ClassifierError => (cpc = "done" /\ output = raw_text)

(***************************************************************************)
(* PDF2TXT.convert (pdf2txt.py): the pages are recognised by a pool of     *)
(* n_jobs workers, the results are sorted by page number and assembled.    *)
(* The pool hands the pages out in order; the calls finish in any order,   *)
(* and results holds the pairs in the order in which they finished.        *)
(***************************************************************************)
MaxJobs == 2

\* the text process_single_page returns when recognition raised
PageFailureText(n) ==
    <<"u7B2C">> \o str_int(n) \o <<"u9875", "u8BC6", "u522B", "u5931", "u8D25", ":", " ", "e">>

\* the values of process_single_page for page n: the stripped text of the
\* page (empty for a blank page), or the failure text
PageTexts(n) ==
    { <<>>, BodyLine, ShortBodyLine \o <<"LF">> \o LatinLine, PageFailureText(n) }

\* a variant of the sort that leaves the list as collected
sort_results_unsorted(rs) == rs

\* results.sort(key=lambda x: x[0])
sort_results(rs) == SortSeq(rs, LAMBDA a, b : a.page_num < b.page_num)

\* the three pieces appended for one result
section(r) == <<page_marker(r.page_num), r.text, <<"LF">> >>

RECURSIVE assemble(_)
assemble(rs) ==
    IF rs = <<>> THEN <<>> ELSE section(Head(rs)) \o assemble(Tail(rs))

ParallelInit ==
    /\ jpc = "pool"
    /\ n_jobs \in 1..MaxJobs
    /\ \E n \in 1..MaxPages : page_tasks = [p \in 1..n |-> "queued"]
    /\ results = <<>>
    /\ full_text = <<>>
    /\ txt_output = NoFile
    /\ FilterIdle /\ ConvertIdle
    /\ PageIdle /\ RegistryIdle /\ DriverIdle /\ BatchIdle

\* a free worker takes the next page
StartPage ==
    /\ jpc = "pool"
    /\ Cardinality({p \in DOMAIN page_tasks : page_tasks[p] = "running"}) < n_jobs
    /\ \E p \in DOMAIN page_tasks :
        /\ page_tasks[p] = "queued"
        /\ \A q \in 1..(p - 1) : page_tasks[q] # "queued"
        /\ page_tasks' = [page_tasks EXCEPT ![p] = "running"]
    /\ UNCHANGED <<jpc, n_jobs, results, full_text, txt_output>>
    /\ UNCHANGED parallel_others

\* a call of process_single_page returns its pair
FinishPage ==
    /\ jpc = "pool"
    /\ \E p \in DOMAIN page_tasks :
        /\ page_tasks[p] = "running"
        /\ \E t \in PageTexts(p) :
            results' = Append(results, [page_num |-> p, text |-> t])
        /\ page_tasks' = [page_tasks EXCEPT ![p] = "done"]
    /\ UNCHANGED <<jpc, n_jobs, full_text, txt_output>>
    /\ UNCHANGED parallel_others

\* all calls returned: sort, assemble, write
Assemble ==
    /\ jpc = "pool"
    /\ \A p \in DOMAIN page_tasks : page_tasks[p] = "done"
    /\ full_text' = assemble(sort_results(results))
    /\ txt_output' = Concat(full_text')
    /\ jpc' = "done"
    /\ UNCHANGED <<n_jobs, page_tasks, results>>
    /\ UNCHANGED parallel_others

ParallelNext ==
    \/ StartPage
    \/ FinishPage
    \/ Assemble

SpecParallel == ParallelInit /\ [][ParallelNext]_vars

\* the text the call for page p returned
TextOfPage(p) == (CHOOSE r \in {results[k] : k \in DOMAIN results} : r.page_num = p).text

\* the first n sections in page order
RECURSIVE SectionsUpTo(_)
SectionsUpTo(n) ==
    IF n = 0 THEN <<>>
    ELSE SectionsUpTo(n - 1) \o page_marker(n) \o TextOfPage(n) \o <<"LF">>

\* C27: whatever the order in which the parallel calls finished, the text
\* written has the page sections in strictly increasing page order, each
\* one the marker line, the page text and a blank line.
C27_SectionsInPageOrder ==
    jpc = "done"
        => /\ txt_output = SectionsUpTo(Len(page_tasks))
           /\ SelectSeq(Split(txt_output), is_page_marker)
                 = [p \in 1..Len(page_tasks) |-> PageMarkerLine(p)]

\* C27's case: the call for page 2 finished before the call for page 1
C27_Witness ==
    /\ jpc = "done"
    /\ Len(results) >= 2
    /\ results[1].page_num > results[2].page_num
    /\ results[1].text # results[2].text

(***************************************************************************)
(* Further properties of the batch driver (SpecBatch).                     *)
(***************************************************************************)
\* the output files after the first k files were processed one after the
\* other, in the order of submission (what a single worker does)
RECURSIVE sequential_output(_)
sequential_output(k) ==
    IF k = 0
    THEN [x \in DOMAIN out_files |-> IF x \in existing THEN OldText ELSE NoFile]
    ELSE LET before == sequential_output(k - 1)
             stem == task[k].stem
         IN  IF ~force /\ before[stem] # NoFile THEN before
             ELSE IF task[k].outcome = "success"
                  THEN [before EXCEPT ![stem] = ConvertedText(k)]
                  ELSE before

C22_FailureIsIsolated ==
    /\ bpc \in {"run", "summary"}
    /\ bpc = "run" => ENABLED BatchNext
    /\ \A f \in DOMAIN task :
          task[f].pc = "done" => task[f].counter \in CounterNames
    /\ bpc = "summary" =>
          /\ \A f \in DOMAIN task : task[f].result \in {"skipped", "success", "failed"}
          /\ \A f \in DOMAIN task :
                task[f].result = "failed" <=> (/\ task[f].outcome # "success"
                                               /\ task[f].result # "skipped")
          /\ counters["failed"].value
                = Cardinality({f \in DOMAIN task : task[f].result = "failed"})

\* C22's case: with several workers, the first file failed with an
\* exception, and the files after it were converted
C22_Witness ==
    /\ bpc = "summary"
    /\ worker > 1
    /\ Len(task) = MaxFiles
    /\ task[1].outcome = "raised"
    /\ task[1].result = "failed"
    /\ \A f \in 2..Len(task) : task[f].result = "success"

=============================================================================
